---- MODULE Spec2Model ----
(***************************************************************************)
(* A model of basilisk's provider adapters (BaseEngine, AnthropicEngine,   *)
(* OllamaEngine), of the conversation data they work on (Message,          *)
(* MessageBlock, Conversation) and of ImageFile.                           *)
(*                                                                         *)
(* Every Python value is a record with a "kind" field, so that values of   *)
(* different Python types can be compared.  A text is a sequence of        *)
(* characters; a raised exception is the value Raise(<exception>).         *)
(***************************************************************************)
EXTENDS Integers, Sequences, FiniteSets, TLC

VARIABLES
    engine,       \* the adapter instance: "none" before construction, else its class
    linesep,      \* os.linesep of the host, as a text
    inst_client,  \* the instance's __dict__["client"]: 0 when absent, else the client object
    clientBuilt,  \* how many vendor clients have been constructed
    accessed,     \* whether `client` has been read on the instance
    blocks,       \* the MessageBlock objects, by identity (1..Len(blocks))
    conv,         \* conversation.messages: the identities of its blocks, in order
    vresp,        \* the vendor response the caller holds (None, a message or a stream)
    gen,          \* the generator returned by completion_response_with_stream
    ret,          \* the last operation, its arguments and what it returned or raised
    img,          \* the ImageFile instance (kind "none" before construction)
    fs,           \* the file system: the local file and the temporary files
    loadCache,    \* lru_cache of ImageFile.load
    urlCache,     \* lru_cache of ImageFile.get_url, by its resize argument
    ioDone,       \* how many times load()'s I/O completed on the instance
    calls         \* how many ImageFile operations have been called

engineVars == <<engine, linesep, inst_client, clientBuilt, accessed, blocks, conv,
                vresp, gen>>
imageVars == <<img, fs, loadCache, urlCache, ioDone, calls>>
vars == <<engineVars, ret, imageVars>>

-----------------------------------------------------------------------------
(* Bounds *)

\* The number of MessageBlock objects the caller creates.
MaxBlocks == 2
\* The number of MessageBlock objects of a conversation whose history is rendered.
MaxHistory == 3
\* The number of ImageFile operations called on the instance.
MaxCalls == 3

-----------------------------------------------------------------------------
(* Values *)

LF == "\n"
CR == "\r"

None == [kind |-> "None"]
IsNone(x) == x.kind = "None"
Raise(exc) == [kind |-> "raise", exc |-> exc]
IsRaise(x) == x.kind = "raise"

\* conversation.py: MessageRoleEnum
MessageRoleEnum == {"assistant", "user", "system"}

\* conversation.py: Message(role, content)
Message(role, content) == [kind |-> "Message", role |-> role, content |-> content]

\* A str content, and a list content of items
Str(text) == [kind |-> "str", text |-> text]
List(items) == [kind |-> "list", items |-> items]

\* An ImageFile inside a message, by what its location is
ImageItem(type, loc) == [kind |-> "ImageFile", type |-> type, loc |-> loc]

\* conversation.py: the defaults of MessageBlock's generation parameters
DefaultTemperature == 1
DefaultMaxTokens == 4096
DefaultTopP == 1

\* anthropic_engine.py: max_output_tokens of every model of the catalog
ModelMaxOutputTokens == 4096

\* conversation.py: MessageBlock(request, model, temperature, max_tokens, top_p, stream)
MessageBlock(request, p) ==
    [kind |-> "MessageBlock", request |-> request, response |-> None,
     model |-> "m", temperature |-> p.temperature, max_tokens |-> p.max_tokens,
     top_p |-> p.top_p, stream |-> p.stream]

-----------------------------------------------------------------------------
(* Inputs *)

Adapters == {"anthropic", "ollama"}

\* os.linesep: "\n" on POSIX, "\r\n" on Windows
LineSeps == {<<LF>>, <<CR, LF>>}

\* The requests a caller builds: a plain text, a text with a local image, a
\* remote image given by its http URL
RequestContents ==
    { Str(<<"q">>),
      List(<<Str(<<"q">>), ImageItem("IMAGE_LOCAL", "path")>>),
      List(<<ImageItem("IMAGE_URL", "http")>>) }

\* The generation parameters a caller sets on a block
BlockParams ==
    { [temperature |-> DefaultTemperature, max_tokens |-> DefaultMaxTokens,
       top_p |-> DefaultTopP, stream |-> FALSE],
      [temperature |-> 0, max_tokens |-> 0, top_p |-> DefaultTopP, stream |-> TRUE] }

SystemMessages == {None, Message("system", Str(<<"s">>))}

\* **kwargs of completion
NoKwargs == [k \in {} |-> 0]
KwargSets == {NoKwargs, [temperature |-> 2], [stream |-> FALSE], [top_k |-> 5]}

\* The reply texts of the vendor
VendorTexts == {<<"a">>, <<"a", LF, "b">>}

\* The events of a vendor stream (anthropic: MessageStreamEvent)
Event(type) == [kind |-> "event", type |-> type]
Delta(text) == [kind |-> "event", type |-> "content_block_delta", text |-> text]
VendorStreams ==
    { <<Event("message_start"), Delta(<<"a", LF>>), Delta(<<"b">>)>> }

\* The response dicts of ollama: with a message content, or without one
OllamaDicts ==
    { [kind |-> "dict", has_content |-> TRUE, content |-> <<"a", LF, "b">>],
      [kind |-> "dict", has_content |-> FALSE] }

-----------------------------------------------------------------------------
(* BaseEngine *)

\* str.replace('\n', sep)
RECURSIVE Replace(_, _)
Replace(text, sep) ==
    IF text = <<>> THEN <<>>
    ELSE (IF Head(text) = LF THEN sep ELSE <<Head(text)>>) \o Replace(Tail(text), sep)

\* BaseEngine.normalize_linesep, on a host whose os.linesep is ls
normalize_linesep(ls, text) ==
    IF text # <<>> /\ ls # <<LF>> THEN Replace(text, ls) ELSE text

\* BaseEngine.handle_message: abstract, its body is `pass`
BaseHandleMessage(message) == None

\* BaseEngine.unsupported_request_params, which no adapter overrides
unsupported_request_params(e) == {}

\* The first exception raised while the elements of s were computed, or None
RECURSIVE FirstRaise(_)
FirstRaise(s) ==
    IF s = <<>> THEN None
    ELSE IF IsRaise(Head(s)) THEN Head(s) ELSE FirstRaise(Tail(s))

\* The list s as the value of the function that built it: the exception one of
\* its elements raised, or the list
ListOrRaise(s) ==
    IF IsNone(FirstRaise(s)) THEN [kind |-> "list", items |-> s] ELSE FirstRaise(s)

-----------------------------------------------------------------------------
(* AnthropicEngine.handle_message *)

\* ImageFile.get_url() of an image inside a message: a data URL for a local
\* image, ValueError("Invalid image type") for any other
ItemGetUrl(item) ==
    IF item.type = "IMAGE_LOCAL"
    THEN [kind |-> "url", mime |-> "image/png", data |-> "b64"]
    ELSE Raise("ValueError")

\* One item of a list content
AnthropicHandleItem(item) ==
    IF item.kind = "str" THEN [kind |-> "part", type |-> "text", text |-> item.text]
    ELSE IF item.kind = "ImageFile"
    THEN IF \/ item.type = "IMAGE_LOCAL"
            \/ (item.type = "IMAGE_URL" /\ item.loc = "data")
         THEN LET image_url == ItemGetUrl(item) IN
              IF IsRaise(image_url) THEN image_url
              ELSE [kind |-> "part", type |-> "image",
                    media_type |-> image_url.mime, data |-> image_url.data]
         ELSE Raise("ValueError")
    ELSE Raise("ValueError")

AnthropicHandleMessage(message) ==
    IF message.content.kind = "list"
    THEN LET content == [i \in 1..Len(message.content.items) |->
                            AnthropicHandleItem(message.content.items[i])] IN
         IF IsRaise(ListOrRaise(content)) THEN ListOrRaise(content)
         ELSE [kind |-> "rendered", role |-> message.role, content |-> content]
    ELSE IF message.content.kind = "str"
    THEN [kind |-> "rendered", role |-> message.role,
          content |-> <<[kind |-> "part", type |-> "text",
                         text |-> message.content.text]>>]
    ELSE Raise("ValueError")

\* self.handle_message of adapter e; OllamaEngine defines none and inherits
\* BaseEngine's
HandleMessage(e, message) ==
    IF e = "anthropic" THEN AnthropicHandleMessage(message)
    ELSE BaseHandleMessage(message)

-----------------------------------------------------------------------------
(* get_messages *)

\* A mutant of History: a block without a response is not skipped, its request
\* is rendered
RECURSIVE HistoryKeepsPending(_, _, _)
HistoryKeepsPending(e, bl, cv) ==
    IF cv = <<>> THEN <<>>
    ELSE (IF IsNone(bl[Head(cv)].response)
          THEN <<HandleMessage(e, bl[Head(cv)].request)>>
          ELSE <<HandleMessage(e, bl[Head(cv)].request),
                 HandleMessage(e, bl[Head(cv)].response)>>)
         \o HistoryKeepsPending(e, bl, Tail(cv))

\* The loop of get_messages over conversation.messages (cv, identities of the
\* blocks bl): a block without a response is skipped, any other gives its
\* rendered request and its rendered response
RECURSIVE History(_, _, _)
History(e, bl, cv) ==
    IF cv = <<>> THEN <<>>
    ELSE (IF IsNone(bl[Head(cv)].response) THEN <<>>
          ELSE <<HandleMessage(e, bl[Head(cv)].request),
                 HandleMessage(e, bl[Head(cv)].response)>>)
         \o History(e, bl, Tail(cv))

\* BaseEngine.get_messages(new_block, conversation, system_message)
BaseGetMessages(e, bl, cv, new_block, system_message) ==
    ListOrRaise(
        (IF ~IsNone(system_message) THEN <<HandleMessage(e, system_message)>> ELSE <<>>)
        \o History(e, bl, cv)
        \o <<HandleMessage(e, new_block.request)>>)

\* AnthropicEngine.get_messages(new_block, conversation)
AnthropicGetMessages(e, bl, cv, new_block) ==
    ListOrRaise(History(e, bl, cv) \o <<HandleMessage(e, new_block.request)>>)

\* get_messages as adapter e's completion calls it: OllamaEngine passes the
\* system message to BaseEngine's, AnthropicEngine's own takes none
GetMessagesOf(e, bl, cv, new_block, system_message) ==
    IF e = "anthropic" THEN AnthropicGetMessages(e, bl, cv, new_block)
    ELSE BaseGetMessages(e, bl, cv, new_block, system_message)

-----------------------------------------------------------------------------
(* client *)

\* Reading `client` on an instance of adapter e whose __dict__ holds ic, after
\* `built` constructions: functools.cached_property returns the __dict__ entry
\* when there is one, else runs the getter and stores what it returns.
\* AnthropicEngine's getter constructs Anthropic(api_key=...); OllamaEngine's
\* getter reads self.client again, which never returns
ClientGet(e, ic, built) ==
    IF ic # 0 THEN [value |-> [kind |-> "client", id |-> ic], inst |-> ic, built |-> built]
    ELSE IF e = "anthropic"
    THEN [value |-> [kind |-> "client", id |-> built + 1], inst |-> built + 1,
          built |-> built + 1]
    ELSE [value |-> Raise("RecursionError"), inst |-> ic, built |-> built]

-----------------------------------------------------------------------------
(* completion *)

\* dict.update: the entries of p, overridden by those of kw
Merge(p, kw) ==
    [k \in DOMAIN p \cup DOMAIN kw |-> IF k \in DOMAIN kw THEN kw[k] ELSE p[k]]

\* AnthropicEngine.completion: the params of client.messages.create
AnthropicParams(new_block, messages, system_message, kwargs) ==
    LET params == [model |-> new_block.model,
                   messages |-> messages,
                   temperature |-> new_block.temperature,
                   max_tokens |-> IF new_block.max_tokens # 0
                                  THEN new_block.max_tokens
                                  ELSE ModelMaxOutputTokens,
                   top_p |-> new_block.top_p,
                   stream |-> new_block.stream]
        with_system == IF ~IsNone(system_message)
                       THEN Merge(params, [system |-> system_message.content])
                       ELSE params
    IN  Merge(with_system, kwargs)

\* OllamaEngine.completion: the params of chat
OllamaParams(new_block, messages) ==
    [model |-> new_block.model, messages |-> messages]

\* What client.messages.create returns for params: a stream of events when
\* params["stream"], else a message whose first content block holds the text.
\* A stream holds the HTTP response it reads its events from, open from the
\* moment create returns
AnthropicCreate(params, text, events) ==
    IF params["stream"] THEN [kind |-> "Stream", rest |-> events, open |-> TRUE]
    ELSE [kind |-> "AnthropicMessage", content |-> <<text>>]

-----------------------------------------------------------------------------
(* completion_response_without_stream *)

\* AnthropicEngine.completion_response_without_stream: new_block as it leaves
\* it, or the exception (a Stream has no content)
AnthropicWithoutStream(ls, response, new_block) ==
    IF response.kind = "AnthropicMessage"
    THEN [new_block EXCEPT !.response =
             Message("assistant", Str(normalize_linesep(ls, response.content[1])))]
    ELSE Raise("AttributeError")

\* OllamaEngine.completion_response_without_stream, on a response dict
OllamaWithoutStream(ls, response, new_block) ==
    [new_block EXCEPT !.response =
        Message("assistant",
                Str(normalize_linesep(ls, IF response.has_content
                                          THEN response.content ELSE <<>>)))]

-----------------------------------------------------------------------------
(* completion_response_with_stream *)

\* The events from the next content_block_delta on; <<>> when there is none
RECURSIVE SkipToDelta(_)
SkipToDelta(events) ==
    IF events = <<>> THEN <<>>
    ELSE IF Head(events).type = "content_block_delta" THEN events
    ELSE SkipToDelta(Tail(events))

\* The fragment AnthropicEngine.completion_response_with_stream yields for a
\* content_block_delta event
AnthropicFragment(ls, event) == event.text

-----------------------------------------------------------------------------
(* The adapter's operations *)

\* AnthropicEngine.__init__ / OllamaEngine.__init__: the latter constructs
\* AsyncClient() and stores it as the instance's `client`
EngineInit(e) ==
    /\ engine = "none"
    /\ engine' = e
    /\ inst_client' = IF e = "ollama" THEN clientBuilt + 1 ELSE inst_client
    /\ clientBuilt' = IF e = "ollama" THEN clientBuilt + 1 ELSE clientBuilt
    /\ ret' = [op |-> "__init__"]
    /\ UNCHANGED <<linesep, accessed, blocks, conv, vresp, gen, imageVars>>

\* A read of engine.client
Client ==
    /\ engine # "none"
    /\ LET c == ClientGet(engine, inst_client, clientBuilt) IN
       /\ inst_client' = c.inst
       /\ clientBuilt' = c.built
       /\ ret' = [op |-> "client", value |-> c.value]
    /\ accessed' = TRUE
    /\ UNCHANGED <<engine, linesep, blocks, conv, vresp, gen, imageVars>>

\* The caller creates a pending block: a request, no response
CreateBlock(request, p) ==
    /\ Len(blocks) < MaxBlocks
    /\ blocks' = Append(blocks, MessageBlock(request, p))
    /\ ret' = [op |-> "caller"]
    /\ UNCHANGED <<engine, linesep, inst_client, clientBuilt, accessed, conv, vresp,
                   gen, imageVars>>

\* The caller appends block b to conversation.messages
AppendBlock(b) ==
    /\ b \in DOMAIN blocks
    /\ \A i \in DOMAIN conv : conv[i] # b
    /\ conv' = Append(conv, b)
    /\ ret' = [op |-> "caller"]
    /\ UNCHANGED <<engine, linesep, inst_client, clientBuilt, accessed, blocks, vresp,
                   gen, imageVars>>

\* get_messages(new_block, conversation[, system_message]); AnthropicEngine's
\* takes no system message
GetMessages(b, system_message) ==
    /\ engine # "none"
    /\ b \in DOMAIN blocks
    /\ engine = "anthropic" => IsNone(system_message)
    /\ ret' = [op |-> "get_messages", block |-> b, system |-> system_message,
               value |-> GetMessagesOf(engine, blocks, conv, blocks[b], system_message)]
    /\ UNCHANGED <<engineVars, imageVars>>

\* AnthropicEngine.completion(new_block, conversation, system_message, **kwargs):
\* renders the history, reads self.client and calls messages.create, which
\* answers (text or events, by params["stream"]) or fails
AnthropicCompletion(b, system_message, kwargs, vendor_ok, text, events) ==
    /\ engine = "anthropic"
    /\ b \in DOMAIN blocks
    /\ LET messages == AnthropicGetMessages(engine, blocks, conv, blocks[b])
           call == [op |-> "completion", block |-> b, system |-> system_message,
                    kwargs |-> kwargs, vendor_ok |-> vendor_ok]
       IN
       IF IsRaise(messages)
       THEN /\ ret' = Merge(call, [sent |-> None, value |-> messages])
            /\ UNCHANGED <<inst_client, clientBuilt, accessed, vresp, gen>>
       ELSE LET params == AnthropicParams(blocks[b], messages, system_message, kwargs)
                c == ClientGet(engine, inst_client, clientBuilt)
                response == IF vendor_ok THEN AnthropicCreate(params, text, events)
                            ELSE Raise("VendorError")
            IN
            /\ inst_client' = c.inst
            /\ clientBuilt' = c.built
            /\ accessed' = TRUE
            /\ vresp' = IF vendor_ok THEN response ELSE vresp
            /\ gen' = IF vendor_ok THEN [state |-> "none"] ELSE gen
            /\ ret' = Merge(call, [sent |-> [kind |-> "request", params |-> params],
                                   value |-> response])
    /\ UNCHANGED <<engine, linesep, blocks, conv, imageVars>>

\* OllamaEngine.completion: renders the history, calls chat(model, messages),
\* and then fails: the response of chat is not awaitable and MessageBlock takes
\* no positional argument
OllamaCompletion(b, system_message, kwargs, vendor_ok) ==
    /\ engine = "ollama"
    /\ b \in DOMAIN blocks
    /\ LET messages == BaseGetMessages(engine, blocks, conv, blocks[b], system_message)
           call == [op |-> "completion", block |-> b, system |-> system_message,
                    kwargs |-> kwargs, vendor_ok |-> vendor_ok]
       IN
       IF IsRaise(messages)
       THEN ret' = Merge(call, [sent |-> None, value |-> messages])
       ELSE ret' = Merge(call,
                         [sent |-> [kind |-> "request",
                                    params |-> OllamaParams(blocks[b], messages)],
                          value |-> IF vendor_ok THEN Raise("TypeError")
                                    ELSE Raise("VendorError")])
    /\ UNCHANGED <<engineVars, imageVars>>

\* completion_response_without_stream(response, new_block): writes
\* new_block.response and returns new_block.  The caller of AnthropicEngine
\* passes the response it holds, the caller of OllamaEngine a response dict
WithoutStream(b, response) ==
    /\ engine # "none"
    /\ b \in DOMAIN blocks
    /\ IF engine = "anthropic" THEN ~IsNone(vresp) /\ response = vresp
       ELSE response \in OllamaDicts
    /\ LET new_block == IF engine = "anthropic"
                        THEN AnthropicWithoutStream(linesep, response, blocks[b])
                        ELSE OllamaWithoutStream(linesep, response, blocks[b])
       IN
       /\ blocks' = IF IsRaise(new_block) THEN blocks ELSE [blocks EXCEPT ![b] = new_block]
       /\ ret' = [op |-> "without_stream", block |-> b, response |-> response,
                  value |-> IF IsRaise(new_block) THEN new_block
                            ELSE [kind |-> "MessageBlock_ref", id |-> b]]
    /\ UNCHANGED <<engine, linesep, inst_client, clientBuilt, accessed, conv, vresp,
                   gen, imageVars>>

\* completion_response_with_stream(stream). AnthropicEngine's is a generator
\* function: the call returns a generator that has not started.
\* OllamaEngine's hands an async generator to loop.run_until_complete, which
\* raises TypeError
WithStream ==
    /\ engine # "none"
    /\ engine = "anthropic" => ~IsNone(vresp)
    /\ gen' = IF engine = "anthropic" THEN [state |-> "suspended"] ELSE gen
    /\ ret' = [op |-> "with_stream",
               value |-> IF engine = "anthropic" THEN [kind |-> "generator"]
                         ELSE Raise("TypeError")]
    /\ UNCHANGED <<engine, linesep, inst_client, clientBuilt, accessed, blocks, conv,
                   vresp, imageVars>>

\* next() on the generator: it reads the stream up to the next
\* content_block_delta and yields its text, or ends with the stream; what is
\* not a stream has no events to read.  The generator never closes the
\* stream: the response behind it is released only by being read to its end
StreamNext ==
    /\ gen.state = "suspended"
    /\ IF vresp.kind # "Stream"
       THEN /\ gen' = [state |-> "done"]
            /\ ret' = [op |-> "next", value |-> Raise("AttributeError")]
            /\ UNCHANGED vresp
       ELSE LET rest == SkipToDelta(vresp.rest) IN
            IF rest = <<>>
            THEN /\ gen' = [state |-> "done"]
                 /\ vresp' = [vresp EXCEPT !.rest = <<>>, !.open = FALSE]
                 /\ ret' = [op |-> "next", value |-> Raise("StopIteration")]
            ELSE /\ gen' = gen
                 /\ vresp' = [vresp EXCEPT !.rest = Tail(rest)]
                 /\ ret' = [op |-> "next", src |-> Head(rest).text,
                            value |-> [kind |-> "yield",
                                       text |-> AnthropicFragment(linesep, Head(rest))]]
    /\ UNCHANGED <<engine, linesep, inst_client, clientBuilt, accessed, blocks, conv,
                   imageVars>>

\* The consumer leaves its loop after a fragment and drops the generator.
\* Python closes it: GeneratorExit is raised at the yield it is suspended on
\* and unwinds the for loop, which has no with block and no finally clause,
\* so nothing is done to the stream the caller passed in
StreamAbandon ==
    /\ gen.state = "suspended"
    /\ ret.op = "next"
    /\ ret.value.kind = "yield"
    /\ gen' = [state |-> "abandoned"]
    /\ ret' = [op |-> "abandon", value |-> None]
    /\ UNCHANGED <<engine, linesep, inst_client, clientBuilt, accessed, blocks, conv,
                   vresp, imageVars>>

\* The consumer raises while it handles a fragment the generator yielded:
\* the exception leaves the consumer's loop, the generator stays suspended on
\* its yield until it is dropped and closed, and again no line of the
\* generator touches the stream
ConsumerRaises ==
    /\ gen.state = "suspended"
    /\ ret.op = "next"
    /\ ret.value.kind = "yield"
    /\ gen' = [state |-> "raised"]
    /\ ret' = [op |-> "consumer", value |-> Raise("ConsumerError")]
    /\ UNCHANGED <<engine, linesep, inst_client, clientBuilt, accessed, blocks, conv,
                   vresp, imageVars>>

-----------------------------------------------------------------------------
(* Spec: an adapter's life.  The caller creates blocks, asks for completions  *)
(* (no system message, no extra parameter), hands the responses back and     *)
(* appends blocks to the conversation.                                        *)

ImageUnused ==
    /\ img = [kind |-> "none"]
    /\ fs = [exists |-> TRUE, temp |-> {}]
    /\ loadCache = None
    /\ urlCache = [r \in BOOLEAN |-> None]
    /\ ioDone = 0
    /\ calls = 0

Init ==
    /\ engine = "none"
    /\ linesep \in LineSeps
    /\ inst_client = 0
    /\ clientBuilt = 0
    /\ accessed = FALSE
    /\ blocks = <<>>
    /\ conv = <<>>
    /\ vresp = None
    /\ gen = [state |-> "none"]
    /\ ret = [op |-> "none"]
    /\ ImageUnused

Next ==
    \/ \E e \in Adapters : EngineInit(e)
    \/ Client
    \/ \E request \in RequestContents, p \in BlockParams :
          CreateBlock(Message("user", request), p)
    \/ \E b \in 1..MaxBlocks : AppendBlock(b)
    \/ \E b \in 1..MaxBlocks, ok \in BOOLEAN, text \in VendorTexts,
          events \in VendorStreams :
          AnthropicCompletion(b, None, NoKwargs, ok, text, events)
    \/ \E b \in 1..MaxBlocks, ok \in BOOLEAN : OllamaCompletion(b, None, NoKwargs, ok)
    \/ \E b \in 1..MaxBlocks, response \in OllamaDicts \cup {vresp} :
          WithoutStream(b, response)
    \/ WithStream
    \/ StreamNext
    \/ StreamAbandon
    \/ ConsumerRaises

Spec == Init /\ [][Next]_vars

-----------------------------------------------------------------------------
(* SpecHistory: get_messages applied to the conversations of up to        *)
(* MaxHistory blocks, answered or not, in any order, by either adapter.    *)

HistoryResponses == {None, Message("assistant", Str(<<"a">>))}

HistoryBlocks ==
    { [MessageBlock(Message("user", c),
                    [temperature |-> DefaultTemperature, max_tokens |-> DefaultMaxTokens,
                     top_p |-> DefaultTopP, stream |-> FALSE])
          EXCEPT !.response = r] : c \in RequestContents, r \in HistoryResponses }

\* The sequences of k distinct block identities among 1..n
Arrangements(n) ==
    UNION { {cv \in [1..k -> 1..n] : \A i, j \in 1..k : cv[i] = cv[j] => i = j} :
            k \in 0..n }

\* The state of an adapter of class e after its constructor
Constructed(e) ==
    /\ engine = e
    /\ inst_client = (IF e = "ollama" THEN 1 ELSE 0)
    /\ clientBuilt = (IF e = "ollama" THEN 1 ELSE 0)
    /\ accessed = FALSE
    /\ vresp = None
    /\ gen = [state |-> "none"]

InitHistory ==
    /\ \E e \in Adapters : Constructed(e)
    /\ linesep = <<LF>>
    /\ blocks \in UNION { [1..n -> HistoryBlocks] : n \in 1..MaxHistory }
    /\ conv \in Arrangements(Len(blocks))
    /\ ret = [op |-> "none"]
    /\ ImageUnused

NextHistory ==
    \E b \in 1..MaxHistory, s \in SystemMessages : GetMessages(b, s)

SpecHistory == InitHistory /\ [][NextHistory]_vars

\* The blocks of conversation.messages that hold a response, in its order
Answered == SelectSeq(conv, LAMBDA id : ~IsNone(blocks[id].response))

\* The returned list is: `off` leading messages, then the rendered request and
\* response of each answered block in conversation order, then the rendered
\* request of the pending block
HistoryShape(items, off, pending) ==
    /\ Len(items) = 2 * Len(Answered) + 1 + off
    /\ \A k \in 1..Len(Answered) :
          /\ items[off + 2 * k - 1] = HandleMessage(engine, blocks[Answered[k]].request)
          /\ items[off + 2 * k] = HandleMessage(engine, blocks[Answered[k]].response)
    /\ items[Len(items)] = HandleMessage(engine, blocks[pending].request)

Returned(op) == ret.op = op /\ ~IsRaise(ret.value)

\* C1, as stated: whenever get_messages returns, it returns exactly 2N + 1
\* rendered messages for the N answered blocks of the conversation: request
\* then response of each answered block in order, then the pending request.
C1_Original ==
    Returned("get_messages") => HistoryShape(ret.value.items, 0, ret.block)

\* C1, amended: whenever get_messages returns, it returns the rendered system
\* message first if BaseEngine.get_messages was given one, then request and
\* response of each of the N answered blocks in conversation order, then the
\* pending request: 2N + 1 messages, 2N + 2 with a system message.
C1_History ==
    Returned("get_messages") =>
        LET off == IF engine = "ollama" /\ ~IsNone(ret.system) THEN 1 ELSE 0 IN
        /\ HistoryShape(ret.value.items, off, ret.block)
        /\ off = 1 => ret.value.items[1] = HandleMessage(engine, ret.system)

\* get_messages returned for a conversation that holds an answered block and an
\* unanswered one, a pending block outside the conversation and a system message
C1_Witness ==
    /\ Returned("get_messages")
    /\ engine = "ollama"
    /\ ~IsNone(ret.system)
    /\ Len(Answered) >= 1
    /\ Len(Answered) < Len(conv)
    /\ \A i \in DOMAIN conv : conv[i] # ret.block
    /\ Len(ret.value.items) = 2 * Len(Answered) + 2

-----------------------------------------------------------------------------
(* SpecCompletion: completion applied to a pending block, after one        *)
(* answered block, for every setting of the generation parameters, with    *)
(* and without a system message and extra parameters.                      *)

GenerationParams ==
    [temperature : {0, DefaultTemperature}, max_tokens : {0, DefaultMaxTokens},
     top_p : {DefaultTopP}, stream : BOOLEAN]

InitCompletion ==
    /\ \E e \in Adapters : Constructed(e)
    /\ linesep = <<LF>>
    /\ \E p \in GenerationParams :
          blocks = << [MessageBlock(Message("user", Str(<<"q">>)), p)
                          EXCEPT !.response = Message("assistant", Str(<<"a">>))],
                      MessageBlock(Message("user", Str(<<"q">>)), p) >>
    /\ conv = <<1>>
    /\ ret = [op |-> "none"]
    /\ ImageUnused

NextCompletion ==
    \/ \E s \in SystemMessages, kw \in KwargSets, ok \in BOOLEAN,
          text \in VendorTexts, events \in VendorStreams :
          AnthropicCompletion(2, s, kw, ok, text, events)
    \/ \E s \in SystemMessages, kw \in KwargSets, ok \in BOOLEAN :
          OllamaCompletion(2, s, kw, ok)

SpecCompletion == InitCompletion /\ [][NextCompletion]_vars

\* The names of a MessageBlock's generation parameters
GenerationParamNames == {"temperature", "max_tokens", "top_p", "stream"}

\* The parameters of a request other than the model, the messages and the
\* system message
Generation(params) == DOMAIN params \ {"model", "messages", "system"}

\* C4: the generation parameters completion transmits are the block's
\* (temperature, max_tokens, top_p, stream) overridden key by key by
\* extra_params, without those of unsupported_request_params.
C4_Params ==
    (ret.op = "completion" /\ ~IsNone(ret.sent)) =>
        LET b == blocks[ret.block]
            wanted == (GenerationParamNames \cup DOMAIN ret.kwargs)
                          \ unsupported_request_params(engine)
        IN
        /\ Generation(ret.sent.params) = wanted
        /\ \A k \in wanted :
              ret.sent.params[k] = IF k \in DOMAIN ret.kwargs THEN ret.kwargs[k]
                                   ELSE b[k]

-----------------------------------------------------------------------------
(* Claims on an adapter's life (Spec) *)

\* The reply text a non-streamed vendor response carries
ReplyText(response) ==
    IF response.kind = "AnthropicMessage" THEN response.content[1]
    ELSE IF response.kind = "dict" /\ response.has_content THEN response.content
    ELSE <<>>

\* C2: completion on a pending block, answered by the vendor, returns the
\* vendor's response; completion_response_without_stream on a response that
\* carries a reply text returns the block it was given, whose response is then
\* an assistant Message holding a non-empty text; neither changes
\* conversation.messages.
C2_CompleteThenFinalize ==
    [][ /\ ret'.op \in {"completion", "without_stream"} => conv' = conv
        /\ (ret'.op = "completion" /\ ~IsNone(ret'.sent) /\ ret'.vendor_ok)
              => ~IsRaise(ret'.value)
        /\ (ret'.op = "without_stream" /\ ReplyText(ret'.response) # <<>>)
              => /\ ret'.value = [kind |-> "MessageBlock_ref", id |-> ret'.block]
                 /\ blocks'[ret'.block].response.kind = "Message"
                 /\ blocks'[ret'.block].response.role = "assistant"
                 /\ blocks'[ret'.block].response.content.text # <<>>
      ]_vars

\* C3: a block's response is absent until completion_response_without_stream
\* or the consumption of the stream delivers the reply, and once set no
\* operation changes it.
C3_ResponseWrittenOnce ==
    [][ \A b \in DOMAIN blocks :
          /\ (IsNone(blocks[b].response) /\ ~IsNone(blocks'[b].response))
                => ret'.op \in {"without_stream", "next"}
          /\ ~IsNone(blocks[b].response) => blocks'[b].response = blocks[b].response
      ]_vars

\* No "\n" of the text stands without a "\r" before it
NoBareLF(text) ==
    \A i \in DOMAIN text : text[i] = LF => (i > 1 /\ text[i - 1] = CR)

\* C5: on a host whose line separator is not "\n", every fragment yielded by
\* completion_response_with_stream and the response content written by
\* completion_response_without_stream is the vendor text with each "\n"
\* replaced by the line separator, and holds no bare "\n".
C5_Linesep ==
    linesep # <<LF>> =>
        /\ (ret.op = "next" /\ ret.value.kind = "yield")
              => /\ ret.value.text = Replace(ret.src, linesep)
                 /\ NoBareLF(ret.value.text)
        /\ Returned("without_stream")
              => /\ blocks[ret.block].response.content.text
                        = Replace(ReplyText(ret.response), linesep)
                 /\ NoBareLF(blocks[ret.block].response.content.text)

\* C10: the vendor client is not constructed before the first access of
\* `client`, it is constructed at most once, and every access returns the
\* client the instance holds.
C10_LazyClient ==
    engine # "none" =>
        /\ ~accessed => clientBuilt = 0
        /\ clientBuilt <= 1
        /\ ret.op = "client" => ret.value = [kind |-> "client", id |-> 1]

\* The response behind the stream the caller holds is still open
TransportOpen == vresp.kind = "Stream" /\ vresp.open

\* The sequence returned by completion_response_with_stream is finished
\* (drained to its end) or discarded (abandoned, or dropped after the consumer
\* raised)
SequenceOver == gen.state \in {"done", "abandoned", "raised"}

\* C11: in no ending of the sequence returned by
\* completion_response_with_stream (drained to its end, abandoned after a
\* part, dropped because the consumer raised while iterating) does the
\* transport behind it remain open once the sequence is finished or discarded.
C11_TransportReleased == SequenceOver => ~TransportOpen

-----------------------------------------------------------------------------
(* ImageFile *)

\* The locations of an image: a local path, an http URL, an http URL whose
\* scheme is written in upper case, an inline data:image/ URL, anything else
Locations == {"path", "http", "HTTP", "data", "junk"}

\* What httpx.get answers: a status, a content-type header (or none), a content
HttpOk == 200
Responses ==
    [kind : {"response"}, status_code : {HttpOk, 404},
     content_type : {"image/png", "text/html", "absent"}, content : {<<"i", "m", "g">>}]

\* ImageFile.__init__(location): size -1, no dimensions, no mime type, no data
NoSize == -1
ImageFile(location) ==
    [kind |-> "ImageFile", _location |-> location, _size |-> NoSize,
     _dimensions |-> None, _mime_type |-> None, _data |-> None,
     type |-> None, mime_type |-> None]

\* The body of ImageFile.type: os.path.exists, then URL_PATTERN (http(s)://,
\* data:image/, case ignored)
Classify(location, exists) ==
    IF location = "path" /\ exists THEN [kind |-> "type", name |-> "IMAGE_LOCAL"]
    ELSE IF location \in {"http", "HTTP", "data"}
    THEN [kind |-> "type", name |-> "IMAGE_URL"]
    ELSE [kind |-> "type", name |-> "UNKNOWN"]

\* self.type, a cached_property: the instance with the value cached
WithType(im, exists) ==
    IF IsNone(im.type) THEN [im EXCEPT !.type = Classify(im._location, exists)] ELSE im

\* The dimensions get_image_dimensions finds in a content
Dimensions(content) == [kind |-> "tuple", w |-> Len(content), h |-> 1]

\* The header test of load(): "content-type" in headers and its value,
\* lowered, starts with "image/"
IsImageType(content_type) == content_type = "image/png"

\* A mutant of LoadHttp: the content type is recorded before it is tested
LoadHttpRecordsFirst(im, response, dims_ok) ==
    IF response.status_code # HttpOk THEN [img |-> im, value |-> Raise("ValueError")]
    ELSE LET typed == [im EXCEPT !._mime_type = Str(response.content_type)] IN
         IF ~IsImageType(response.content_type)
         THEN [img |-> typed, value |-> Raise("ValueError")]
         ELSE LET sized == [typed EXCEPT !._size = Len(response.content)] IN
              IF ~dims_ok THEN [img |-> sized, value |-> Raise("OSError")]
              ELSE [img |-> [sized EXCEPT !._dimensions = Dimensions(response.content),
                                          !._data = Str(response.content)],
                    value |-> None]

\* load(), the branch of an http location, given the response of httpx.get and
\* whether get_image_dimensions can read its content: the instance as the
\* branch leaves it, and the exception it raises (None when it goes on)
LoadHttp(im, response, dims_ok) ==
    IF response.status_code # HttpOk THEN [img |-> im, value |-> Raise("ValueError")]
    ELSE IF ~IsImageType(response.content_type)
    THEN [img |-> im, value |-> Raise("ValueError")]
    ELSE LET sized == [im EXCEPT !._mime_type = Str(response.content_type),
                                 !._size = Len(response.content)] IN
         IF ~dims_ok THEN [img |-> sized, value |-> Raise("OSError")]
         ELSE [img |-> [sized EXCEPT !._dimensions = Dimensions(response.content),
                                     !._data = Str(response.content)],
               value |-> None]

\* The payload of the data URL: what follows its first comma, encoded
Payload == <<"A", "A">>

\* load(), the branch of a data:image/ location
LoadData(im, dims_ok) ==
    LET sized == [im EXCEPT !._size = Len(Payload)] IN
    IF ~dims_ok THEN [img |-> sized, value |-> Raise("OSError")]
    ELSE [img |-> [sized EXCEPT !._dimensions = Dimensions(Payload),
                                !._data = Str(Payload)],
          value |-> None]

\* The body of load() on an instance whose type is known: the instance as it
\* leaves it, what it returns or raises, and whether its I/O (file read, fetch
\* of an image, decoding of the payload) completed.  After the branches of a
\* remote image the body goes on to `raise ValueError("Invalid image URL")`
LoadBody(im, exists, response, dims_ok) ==
    IF im.type.name = "IMAGE_LOCAL"
    THEN IF exists THEN [img |-> im, value |-> Str(<<"f">>), io |-> TRUE]
         ELSE [img |-> im, value |-> Raise("FileNotFoundError"), io |-> FALSE]
    ELSE IF im.type.name = "IMAGE_URL"
    THEN LET h == IF im._location = "http" THEN LoadHttp(im, response, dims_ok)
                  ELSE [img |-> im, value |-> None]
             d == IF IsRaise(h.value) THEN h
                  ELSE IF im._location = "data" THEN LoadData(h.img, dims_ok)
                  ELSE h
         IN  [img |-> d.img,
              value |-> IF IsRaise(d.value) THEN d.value ELSE Raise("ValueError"),
              io |-> im._location \in {"http", "data"} /\ ~IsRaise(d.value)]
    ELSE [img |-> im, value |-> Raise("ValueError"), io |-> FALSE]

\* self.mime_type, a cached_property, of a local image: _mime_type when set,
\* else the type mimetypes guesses from the path
WithMimeType(im) ==
    IF ~IsNone(im.mime_type) THEN im
    ELSE [im EXCEPT !.mime_type = IF ~IsNone(im._mime_type) THEN im._mime_type
                                  ELSE Str("image/png")]

-----------------------------------------------------------------------------
(* The operations of ImageFile *)

ImageInit(location) ==
    /\ img.kind = "none"
    /\ img' = ImageFile(location)
    /\ ret' = [op |-> "ImageFile"]
    /\ UNCHANGED <<engineVars, fs, loadCache, urlCache, ioDone, calls>>

\* The local file is removed
RemoveFile ==
    /\ fs.exists
    /\ fs' = [fs EXCEPT !.exists = FALSE]
    /\ ret' = [op |-> "caller"]
    /\ UNCHANGED <<engineVars, img, loadCache, urlCache, ioDone, calls>>

\* load(), under lru_cache: a value returned before is returned again; an
\* exception is not cached
Load(response, dims_ok) ==
    /\ img.kind = "ImageFile"
    /\ calls < MaxCalls
    /\ calls' = calls + 1
    /\ IF ~IsNone(loadCache)
       THEN /\ ret' = [op |-> "load", cached |-> TRUE, fetched |-> FALSE,
                       io |-> FALSE, value |-> loadCache]
            /\ UNCHANGED <<img, loadCache, ioDone>>
       ELSE LET r == LoadBody(WithType(img, fs.exists), fs.exists, response, dims_ok) IN
            /\ img' = r.img
            /\ loadCache' = IF IsRaise(r.value) THEN loadCache ELSE r.value
            /\ ioDone' = IF r.io THEN ioDone + 1 ELSE ioDone
            /\ ret' = [op |-> "load", cached |-> FALSE,
                       fetched |-> (r.img.type.name = "IMAGE_URL"
                                    /\ img._location = "http"),
                       response |-> response, dims_ok |-> dims_ok,
                       io |-> r.io, value |-> r.value]
    /\ UNCHANGED <<engineVars, fs, urlCache>>

\* get_url(resize, ...), under lru_cache.  resize_ok and encode_ok: whether
\* resize_image and encode_image succeed on a file that exists
GetUrl(resize, resize_ok, encode_ok) ==
    /\ img.kind = "ImageFile"
    /\ calls < MaxCalls
    /\ calls' = calls + 1
    /\ IF ~IsNone(urlCache[resize])
       THEN /\ ret' = [op |-> "get_url", resize |-> resize, temp |-> 0,
                       value |-> urlCache[resize]]
            /\ UNCHANGED <<img, fs, urlCache>>
       ELSE LET typed == WithType(img, fs.exists)
                temp == calls + 1
                call == [op |-> "get_url", resize |-> resize]
            IN
            IF typed.type.name # "IMAGE_LOCAL"
            THEN /\ img' = typed
                 /\ ret' = Merge(call, [temp |-> 0, value |-> Raise("ValueError")])
                 /\ UNCHANGED <<fs, urlCache>>
            ELSE IF resize /\ ~(resize_ok /\ fs.exists)
            THEN \* mkstemp made the file, resize_image raises
                 /\ img' = typed
                 /\ fs' = [fs EXCEPT !.temp = @ \cup {temp}]
                 /\ ret' = Merge(call, [temp |-> temp, value |-> Raise("OSError")])
                 /\ UNCHANGED urlCache
            ELSE IF ~(encode_ok /\ (resize \/ fs.exists))
            THEN \* encode_image raises, before os.remove
                 /\ img' = typed
                 /\ fs' = IF resize THEN [fs EXCEPT !.temp = @ \cup {temp}] ELSE fs
                 /\ ret' = Merge(call, [temp |-> IF resize THEN temp ELSE 0,
                                        value |-> Raise("OSError")])
                 /\ UNCHANGED urlCache
            ELSE LET url == [kind |-> "url", mime |-> WithMimeType(typed).mime_type,
                             data |-> IF resize THEN "b64_resized" ELSE "b64"] IN
                 \* the temporary file is made, encoded and removed
                 /\ img' = WithMimeType(typed)
                 /\ fs' = fs
                 /\ urlCache' = [urlCache EXCEPT ![resize] = url]
                 /\ ret' = Merge(call, [temp |-> IF resize THEN temp ELSE 0,
                                        value |-> url])
    /\ UNCHANGED <<engineVars, loadCache, ioDone>>

-----------------------------------------------------------------------------
(* SpecImage: the life of an ImageFile *)

NextImage ==
    \/ \E location \in Locations : ImageInit(location)
    \/ RemoveFile
    \/ \E response \in Responses, dims_ok \in BOOLEAN : Load(response, dims_ok)
    \/ \E resize, resize_ok, encode_ok \in BOOLEAN : GetUrl(resize, resize_ok, encode_ok)

SpecImage == Init /\ [][NextImage]_vars

-----------------------------------------------------------------------------
(* Claims on ImageFile (SpecImage) *)

\* load() has just fetched the http location
Fetched == ret.op = "load" /\ ret.fetched

\* C6: when load() fetches an http location and the status is not success or
\* the content type is not an image type, it raises ValueError and leaves
\* _size, _dimensions, _mime_type, _data and the cached result as they were.
C6_FetchFailure ==
    [][ (/\ ret'.op = "load"
         /\ ret'.fetched
         /\ \/ ret'.response.status_code # HttpOk
            \/ ~IsImageType(ret'.response.content_type))
        => /\ ret'.value = Raise("ValueError")
           /\ img'._size = img._size
           /\ img'._dimensions = img._dimensions
           /\ img'._mime_type = img._mime_type
           /\ img'._data = img._data
           /\ loadCache' = loadCache
      ]_vars

\* load() met a 404 on an instance that an earlier fetch had populated, and
\* what that fetch recorded is still there
C6_Witness ==
    /\ Fetched
    /\ ret.response.status_code = 404
    /\ ret.value = Raise("ValueError")
    /\ img._size = 3
    /\ img._mime_type = Str("image/png")
    /\ ~IsNone(img._data)

\* C7: for a remote image, load() returns the bytes and records size and
\* dimensions when the http fetch succeeds with an image content type, and
\* when the location is a data:image/ URL.
C7_LoadReturns ==
    (/\ ret.op = "load"
     /\ ~ret.cached
     /\ img.type.name = "IMAGE_URL"
     /\ ret.dims_ok
     /\ \/ img._location = "data"
        \/ /\ img._location = "http"
           /\ ret.response.status_code = HttpOk
           /\ IsImageType(ret.response.content_type))
    => /\ ~IsRaise(ret.value)
       /\ img._size # NoSize
       /\ ~IsNone(img._dimensions)

\* C8: over the load() calls on an instance, the I/O (file read, fetch,
\* decoding of the payload) completes at most once, and a load() that finds
\* the cache filled returns the cached content.
C8_LoadOnce ==
    /\ ioDone <= 1
    /\ (ret.op = "load" /\ ret.cached) => ret.value = loadCache

\* C9: the temporary file get_url(resize=True) created no longer exists when
\* get_url returns or raises.
C9_TempRemoved ==
    (ret.op = "get_url" /\ ret.temp # 0) => ret.temp \notin fs.temp

====
